---- MODULE Spec2Model ----
(***************************************************************************)
(* Booking-alert ingestion and reconciliation.                             *)
(*                                                                         *)
(* Spec      : the server.  The /api/check-emails GET handler (route.ts)   *)
(*             run by up to MaxReq concurrent requests against the booking *)
(*             store of utils/db.ts (file mode or Redis mode with its      *)
(*             in-memory cache), the mailbox it scans, and clearHistory.   *)
(* SpecRecon : the merge-and-save of route.ts:308-313 applied twice to an  *)
(*             arbitrary history and batch.                                *)
(* SpecOrch  : the browser-side orchestrator (checkEmails, its interval    *)
(*             timer, the deep-scan button and the retry timer).           *)
(* SpecRerun : one client running cycles one after another.                *)
(* SpecPush  : the push loop, sendPushNotification and the subscriptions.  *)
(***************************************************************************)
EXTENDS Integers, Sequences, FiniteSets, TLC

VARIABLES
    isDev,          \* db-config isDev: file-backed store (TRUE) or Redis (FALSE)
    store,          \* the persisted bookings: the JSON file / the Redis key
    memoryCache,    \* db.ts memoryCache: << >> for null, else << records >>
    cacheFresh,     \* Date.now() - lastCacheUpdate < CACHE_TTL
    mailbox,        \* the INBOX: mailbox[uid] is the message with that uid
    extractorRev,   \* deployed revision of the extraction heuristics
    req,            \* the GET requests in flight, one record per slot
    settled,        \* SpecRerun: scan depth of the last cycle that completed
                    \*   against the present mailbox and store, or "none"
    cycMode,        \* SpecRerun: "idle", or how the running cycle relates to
                    \*   the settled one: "rerun", "clean" or "dirty"
    cycDepth,       \* SpecRerun: scan depth of the running cycle
    notified,       \* SpecRerun: ids notified since the mailbox changed or
                    \* the history was cleared
    rStage, rHist, rBatch, rFirst,
                    \* SpecRecon: passes done, starting history, batch, store
                    \*   after the first pass
    isSyncingRef, isLiveSync, isHistoryLoaded, syncStatus, cyc, lastTrigger,
                    \* SpecOrch: the orchestrator's refs, state and cycles
    memorySubscriptions,
                    \* SpecPush: the registered push subscriptions
    vapidKeys,      \* SpecPush: both VAPID keys are configured
    pushLoop,       \* SpecPush: the push loop of the cycle in progress
    slotIn,         \* SpecSlot: the time matches of a slot text
    slotOut,        \* SpecSlot: extractTimeOnly's result for them
    permOut,        \* SpecSlot: its result for the matches reordered
    slotStage,      \* SpecSlot: calls made
    lastSave        \* SpecSubs: the arguments of the latest saveSubscription

vars == << isDev, store, memoryCache, cacheFresh, mailbox, extractorRev, req,
           settled, cycMode, cycDepth, notified, rStage, rHist, rBatch, rFirst,
           isSyncingRef, isLiveSync, isHistoryLoaded, syncStatus, cyc,
           lastTrigger, memorySubscriptions, vapidKeys, pushLoop,
           slotIn, slotOut, permOut, slotStage, lastSave >>

serverVars == << isDev, store, memoryCache, cacheFresh, mailbox, extractorRev,
                 req >>
rerunVars  == << settled, cycMode, cycDepth, notified >>
reconVars  == << rStage, rHist, rBatch, rFirst >>
orchVars   == << isSyncingRef, isLiveSync, isHistoryLoaded, syncStatus, cyc,
                 lastTrigger >>
pushVars   == << memorySubscriptions, vapidKeys, pushLoop >>
slotVars   == << slotIn, slotOut, permOut, slotStage >>
subsVars   == << lastSave >>

----------------------------------------------------------------------------
(* Bounds and program constants *)

MaxUid == 3            \* messages that ever arrive in the mailbox
MaxReq == 2            \* GET requests in flight together
MaxCycles == 2         \* checkEmails invocations of one browser tab alive together
RetentionCap == 2      \* db.ts:66 slice(0, 1000), scaled down to the model

Uids == 1..MaxUid
Reqs == 1..MaxReq

\* Messages older than the default lookback (15 days) but inside the deep
\* one (90 days): only a depth=all scan sees them.
OldUids == {1}

Min(a, b) == IF a <= b THEN a ELSE b

Range(s) == { s[i] : i \in 1..Len(s) }

Ids(s) == { s[i].id : i \in 1..Len(s) }

----------------------------------------------------------------------------
(* Mailbox messages *)

ReviewKeywords == {"review", "rate your", "feedback", "how was",
                   "share your experience"}

\* Message shapes: header keywords (subject + from) and a body shape.
\* "apos" carries its date as 06 Feb '26, "noloc" names no facility of the
\* gazetteer and no sport, "plain" resolves under every revision of the
\* heuristics.
Templates ==
    { [header |-> {"khelomore"}, body |-> "plain"],
      [header |-> {"newsletter"}, body |-> "plain"],
      [header |-> {"hudle"}, body |-> "noloc"],
      [header |-> {"playo", "review"}, body |-> "plain"],
      [header |-> {"playo"}, body |-> "apos"] }

\* The shapes the message that gets a given uid may have
Arrivals(uid) ==
    IF uid % 3 = 1 THEN { t \in Templates : t.body = "plain" /\ "review" \notin t.header }
    ELSE IF uid % 3 = 2 THEN { t \in Templates : t.body = "noloc" \/ "review" \in t.header }
    ELSE { t \in Templates : t.body = "apos" }

\* a classifier that tests the platform keywords before the review keywords
ClassifyPlatformFirst(header) ==
    IF "playo" \in header THEN "Playo"
    ELSE IF "hudle" \in header THEN "Hudle"
    ELSE IF "district" \in header THEN "District"
    ELSE IF header \cap {"khelomore", "khelo more"} # {} THEN "Khelomore"
    ELSE IF header \cap {"google", "security", "verification", "sign-in",
                         "code"} # {} THEN "System"
    ELSE IF header \cap ReviewKeywords # {} THEN "none"
    ELSE "none"

\* route.ts:160-173: review keywords reject first, then the platform cascade
Classify(header) ==
    IF header \cap ReviewKeywords # {} THEN "none"
    ELSE IF "playo" \in header THEN "Playo"
    ELSE IF "hudle" \in header THEN "Hudle"
    ELSE IF "district" \in header THEN "District"
    ELSE IF header \cap {"khelomore", "khelo more"} # {} THEN "Khelomore"
    ELSE IF header \cap {"google", "security", "verification", "sign-in",
                         "code"} # {} THEN "System"
    ELSE "none"

\* route.ts:109-131: SINCE now - daysToSync, 90 days for depth=all, else 15
InWindow(uid, depth) == depth = "all" \/ uid \notin OldUids

\* route.ts:195-303: the record pushed to alerts for message uid.  Revision 1
\* of the heuristics (unnamed/part_007) has no pattern for the 06 Feb '26
\* date form and leaves gameDate empty; revision 2 (route.ts) resolves it.
Extract(uid, msg, rev) ==
    [ id          |-> uid,
      timestamp   |-> uid,
      platform    |-> Classify(msg.header),
      location    |-> IF msg.body = "noloc"
                      THEN (IF Classify(msg.header) = "System"
                            THEN "Security/Admin" ELSE "Unknown Location")
                      ELSE "Andheri",
      bookingSlot |-> IF msg.body = "apos" /\ rev = 1
                      THEN "7:00 PM" ELSE "06 Feb '26, 7:00 PM - 8:00 PM",
      gameDate    |-> IF msg.body = "apos" /\ rev = 1
                      THEN "" ELSE "06 Feb '26",
      gameTime    |-> IF msg.body = "apos" /\ rev = 1
                      THEN "7:00 PM" ELSE "7:00 PM - 8:00 PM",
      sport       |-> IF msg.body = "noloc" THEN "" ELSE "Badminton" ]

\* route.ts:139-144
Stale(h) ==
    \/ h.bookingSlot = "MISSING"
    \/ h.gameDate = "TBD"
    \/ h.location = "Unknown Location"
    \/ h.gameDate = ""

----------------------------------------------------------------------------
(* Reconciliation: route.ts:310-311 and db.ts:66 *)

RECURSIVE UniqueFrom(_, _)
\* new Map(combined.map(item => [item.id, item])).values(): one entry per id,
\* at the position of the id's first occurrence, holding its last record
UniqueFrom(s, seen) ==
    IF s = << >> THEN << >>
    ELSE IF Head(s).id \in seen THEN UniqueFrom(Tail(s), seen)
    ELSE LET id   == Head(s).id
             last == CHOOSE i \in 1..Len(s) :
                        /\ s[i].id = id
                        /\ \A j \in (i+1)..Len(s) : s[j].id # id
         IN  << s[last] >> \o UniqueFrom(Tail(s), seen \cup {id})

RECURSIVE DistinctFrom(_, _)
DistinctFrom(s, seen) ==
    IF s = << >> THEN << >>
    ELSE IF Head(s) \in seen THEN DistinctFrom(Tail(s), seen)
    ELSE << Head(s) >> \o DistinctFrom(Tail(s), seen \cup {Head(s)})

\* a merge that removes duplicate records instead of duplicate ids
UniqueByRecord(combined) == DistinctFrom(combined, {})

\* a merge that removes nothing
UniqueKeepAll(combined) == combined

Unique(combined) == UniqueFrom(combined, {})

\* db.ts:66
Capped(bookings) == SubSeq(bookings, 1, Min(Len(bookings), RetentionCap))

\* every alert counts as new
IsNewAlways(existingHistory, alert) == TRUE

\* route.ts:317
IsNew(existingHistory, alert) ==
    \A i \in 1..Len(existingHistory) : existingHistory[i].id # alert.id

----------------------------------------------------------------------------
(* The booking store: utils/db.ts *)

\* existing[0]?.id, with 0 standing for undefined
FirstId(s) == IF s = << >> THEN 0 ELSE s[1].id

\* db.ts:32-63.  st, mc, fr are the persisted records, memoryCache and the
\* cache's freshness when the call is made; fail says whether the file read
\* or the Redis GET throws.  Yields the returned array and the cache after.
GetBookings(st, mc, fr, fail) ==
    IF isDev
    THEN [ result |-> IF fail THEN << >> ELSE st,
           cache |-> mc, fresh |-> fr, err |-> fail ]
    ELSE IF mc # << >> /\ fr
    THEN [ result |-> mc[1], cache |-> mc, fresh |-> fr, err |-> FALSE ]
    ELSE IF fail
    THEN [ result |-> IF mc = << >> THEN << >> ELSE mc[1],
           cache |-> mc, fresh |-> fr, err |-> TRUE ]
    ELSE [ result |-> st, cache |-> << st >>, fresh |-> TRUE, err |-> FALSE ]

\* db.ts:65-98.  In file mode a failing write throws to the caller; in
\* Redis mode the write is skipped when the change detection sees the same
\* length and first id, and a failing read or SET is caught and logged.
SaveBookings(bookings, st, mc, fr, readFail, writeFail) ==
    LET cappedBookings == Capped(bookings)
        g == GetBookings(st, mc, fr, readFail)
        existing == g.result
    IN  IF isDev
        THEN IF writeFail
             THEN [ store |-> st, cache |-> mc, fresh |-> fr,
                    err |-> TRUE, threw |-> TRUE ]
             ELSE [ store |-> cappedBookings, cache |-> mc, fresh |-> fr,
                    err |-> FALSE, threw |-> FALSE ]
        ELSE IF /\ Len(existing) = Len(cappedBookings)
                /\ FirstId(existing) = FirstId(cappedBookings)
        THEN [ store |-> st, cache |-> g.cache, fresh |-> g.fresh,
               err |-> g.err, threw |-> FALSE ]
        ELSE IF writeFail
        THEN [ store |-> st, cache |-> g.cache, fresh |-> g.fresh,
               err |-> TRUE, threw |-> FALSE ]
        ELSE [ store |-> cappedBookings, cache |-> << cappedBookings >>,
               fresh |-> TRUE, err |-> g.err, threw |-> FALSE ]

\* route.ts:310-313: merge the history read at line 309 with the alerts and
\* save the result
Reconcile(existingHistory, alerts, st, mc, fr, readFail, writeFail) ==
    LET combined == existingHistory \o alerts
        unique == Unique(combined)
    IN  SaveBookings(unique, st, mc, fr, readFail, writeFail)

----------------------------------------------------------------------------
(* The sync cycle: GET of api/check-emails/route.ts *)

IdleReq ==
    [ pc |-> "idle", alerts |-> << >>, hist |-> << >>, pushed |-> << >>,
      storeErr |-> FALSE, success |-> TRUE, message |-> "",
      conn |-> "none", reads |-> 0 ]

\* what can go wrong before the merge: the credentials are not set
\* (route.ts:88), imaps.connect rejects (106), openBox rejects (107), the
\* header search rejects (131), the body fetch or simpleParser throws for a
\* candidate (188-198)
Faults == {"none", "credentials", "connect", "openBox", "search", "extract"}

\* route.ts:90: the message of the response for missing credentials
NoCredentials == "Email credentials not configured"

\* route.ts:337: the message of the response built by the catch block, for
\* the error of each fault
SyncError(fault) ==
    IF fault = "connect" THEN "Sync Error: connect"
    ELSE IF fault = "openBox" THEN "Sync Error: openBox"
    ELSE IF fault = "search" THEN "Sync Error: search"
    ELSE IF fault = "extract" THEN "Sync Error: extraction"
    ELSE "Sync Error: write"

\* a handler that leaves the connection as it is
KeepConnection(conn) == conn

\* route.ts:332-334 and 339-343: connection.end() if a connection was made
EndConnection(conn) == IF conn = "open" THEN "ended" ELSE conn

\* a handler that sends a notification when the cycle fails
FailedNotifying(q, message, conn, storeErr, reads) ==
    [ q EXCEPT !.pc = "respond", !.alerts = << >>, !.hist = << >>,
               !.pushed = << [ id |-> 1, location |-> "Unknown Location" ] >>,
               !.success = FALSE, !.message = message,
               !.conn = EndConnection(conn), !.storeErr = storeErr,
               !.reads = reads ]

\* route.ts:85-91 and 329-338: the cycle ends with a failure response
Failed(q, message, conn, storeErr, reads) ==
    [ q EXCEPT !.pc = "respond", !.alerts = << >>, !.hist = << >>,
               !.pushed = << >>, !.success = FALSE, !.message = message,
               !.conn = EndConnection(conn), !.storeErr = storeErr,
               !.reads = reads ]

RECURSIVE Ascending(_)
Ascending(S) ==
    IF S = {} THEN << >>
    ELSE LET m == CHOOSE x \in S : \A y \in S : x <= y
         IN  << m >> \o Ascending(S \ {m})

\* a candidate filter that lets unclassified messages through
CandidatesUnclassified(existingHistory, depth) ==
    LET existingUids == Ids(existingHistory)
        staleUids == { h.id : h \in { x \in Range(existingHistory) : Stale(x) } }
    IN  { u \in 1..Len(mailbox) :
            /\ InWindow(u, depth)
            /\ ~ (u \in existingUids /\ u \notin staleUids) }

\* route.ts:148-181: the uids of the search window that are not persisted
\* or are persisted stale, and that the classifier assigns a platform
Candidates(existingHistory, depth) ==
    LET existingUids == Ids(existingHistory)
        staleUids == { h.id : h \in { x \in Range(existingHistory) : Stale(x) } }
    IN  { u \in 1..Len(mailbox) :
            /\ InWindow(u, depth)
            /\ ~ (u \in existingUids /\ u \notin staleUids)
            /\ Classify(mailbox[u].header) # "none" }

\* route.ts:183-306: the alerts, in the order the body fetch returns the
\* messages (ascending uid)
Alerts(cands) ==
    LET uids == Ascending(cands)
    IN  [ i \in 1..Len(uids) |->
            Extract(uids[i], mailbox[uids[i]], extractorRev) ]

\* route.ts:316-325: one sendPushNotification call per new alert
Dispatch(existingHistory, alerts) ==
    LET new == SelectSeq(alerts, LAMBDA a : IsNew(existingHistory, a))
    IN  [ i \in 1..Len(new) |-> [ id |-> new[i].id,
                                  location |-> new[i].location ] ]

\* route.ts:83-181 and 183-306: credentials, connect, header search, the
\* first history read, classification, body fetch and extraction
StartCycle(r, depth, readFail, fault) ==
    /\ req[r].pc = "idle"
    /\ \A x \in Reqs : x < r => req[x].pc # "idle"    \* slots are interchangeable
    /\ LET g == GetBookings(store, memoryCache, cacheFresh, readFail)
           cands == Candidates(g.result, depth)
           alerts == Alerts(cands)
       IN  IF fault = "credentials"
           THEN /\ req' = [ req EXCEPT ![r] =
                      Failed(@, NoCredentials, "none", FALSE, 0) ]
                /\ UNCHANGED << memoryCache, cacheFresh >>
           ELSE IF fault \in {"connect", "openBox", "search"}
           THEN /\ req' = [ req EXCEPT ![r] =
                      Failed(@, SyncError(fault),
                             IF fault = "connect" THEN "none" ELSE "open",
                             FALSE, 0) ]
                /\ UNCHANGED << memoryCache, cacheFresh >>
           ELSE IF fault = "extract"
           THEN /\ cands # {}
                /\ req' = [ req EXCEPT ![r] =
                      Failed(@, SyncError(fault), "open", g.err, 1) ]
                /\ memoryCache' = g.cache
                /\ cacheFresh' = g.fresh
           ELSE /\ req' = [ req EXCEPT ![r] =
                      [ pc |-> IF alerts = << >> THEN "respond" ELSE "merge",
                        alerts |-> alerts, hist |-> << >>, pushed |-> << >>,
                        storeErr |-> g.err, success |-> TRUE, message |-> "",
                        conn |-> IF alerts = << >> THEN EndConnection("open")
                                 ELSE "open",
                        reads |-> 1 ] ]
                /\ memoryCache' = g.cache
                /\ cacheFresh' = g.fresh
    /\ UNCHANGED << isDev, store, mailbox, extractorRev >>
    /\ UNCHANGED << reconVars, orchVars, pushVars, slotVars, subsVars >>

\* route.ts:309: the second history read
ReadHistory(r, readFail) ==
    /\ req[r].pc = "merge"
    /\ LET g == GetBookings(store, memoryCache, cacheFresh, readFail)
       IN  /\ req' = [ req EXCEPT ![r].pc = "save", ![r].hist = g.result,
                                  ![r].storeErr = @ \/ g.err,
                                  ![r].reads = @ + 1 ]
           /\ memoryCache' = g.cache
           /\ cacheFresh' = g.fresh
    /\ UNCHANGED << isDev, store, mailbox, extractorRev >>
    /\ UNCHANGED << reconVars, orchVars, pushVars, slotVars, subsVars >>

\* route.ts:310-326: merge, saveBookings, then the push loop
SaveAndNotify(r, readFail, writeFail) ==
    /\ req[r].pc = "save"
    /\ LET sv == Reconcile(req[r].hist, req[r].alerts, store, memoryCache,
                           cacheFresh, readFail, writeFail)
       IN  /\ store' = sv.store
           /\ memoryCache' = sv.cache
           /\ cacheFresh' = sv.fresh
           /\ req' = [ req EXCEPT
                    ![r].pc = "respond",
                    ![r].hist = << >>,
                    ![r].storeErr = @ \/ sv.err,
                    ![r].success = ~ sv.threw,
                    ![r].message = IF sv.threw THEN SyncError("write") ELSE "",
                    ![r].conn = EndConnection(@),
                    ![r].reads = IF isDev THEN @ ELSE @ + 1,
                    ![r].pushed = IF sv.threw THEN << >>
                                  ELSE Dispatch(req[r].hist, req[r].alerts) ]
    /\ UNCHANGED << isDev, mailbox, extractorRev >>
    /\ UNCHANGED << reconVars, orchVars, pushVars, slotVars, subsVars >>

\* route.ts:328-343: the response is returned
Respond(r) ==
    /\ req[r].pc = "respond"
    /\ req' = [ req EXCEPT ![r] = IdleReq ]
    /\ UNCHANGED << isDev, store, memoryCache, cacheFresh, mailbox,
                    extractorRev >>
    /\ UNCHANGED << reconVars, orchVars, pushVars, slotVars, subsVars >>

\* route.ts:90, 328 and 335-338: the JSON body of the response
ResponseOf(q) ==
    IF q.success
    THEN [ success |-> TRUE, alerts |-> q.alerts, message |-> "" ]
    ELSE [ success |-> FALSE, alerts |-> << >>, message |-> q.message ]

\* db.ts:100-116
ClearHistory(fail) ==
    /\ IF fail
       THEN UNCHANGED << store, memoryCache >>
       ELSE /\ store' = << >>
            /\ memoryCache' = IF isDev THEN memoryCache ELSE << << >> >>
    /\ UNCHANGED << isDev, cacheFresh, mailbox, extractorRev, req >>
    /\ UNCHANGED << reconVars, orchVars, pushVars, slotVars, subsVars >>

\* a message is delivered to the INBOX and gets the next uid
MailArrives(t) ==
    /\ Len(mailbox) < MaxUid
    /\ mailbox' = Append(mailbox, t)
    /\ UNCHANGED << isDev, store, memoryCache, cacheFresh, extractorRev, req >>
    /\ UNCHANGED << reconVars, orchVars, pushVars, slotVars, subsVars >>

\* the route is redeployed with the revised heuristics; the module state of
\* db.ts starts afresh
Redeploy ==
    /\ extractorRev = 1
    /\ \A r \in Reqs : req[r].pc = "idle"
    /\ extractorRev' = 2
    /\ memoryCache' = << >>
    /\ cacheFresh' = FALSE
    /\ UNCHANGED << isDev, store, mailbox, req >>
    /\ UNCHANGED << reconVars, orchVars, pushVars, slotVars, subsVars >>

\* db.ts:13,42: CACHE_TTL elapses
CacheExpires ==
    /\ cacheFresh
    /\ cacheFresh' = FALSE
    /\ UNCHANGED << isDev, store, memoryCache, mailbox, extractorRev, req >>
    /\ UNCHANGED << reconVars, orchVars, pushVars, slotVars, subsVars >>

\* db.ts:11-12: a new server instance starts with memoryCache = null
ColdStart ==
    /\ memoryCache # << >>
    /\ \A r \in Reqs : req[r].pc = "idle"
    /\ memoryCache' = << >>
    /\ cacheFresh' = FALSE
    /\ UNCHANGED << isDev, store, mailbox, extractorRev, req >>
    /\ UNCHANGED << reconVars, orchVars, pushVars, slotVars, subsVars >>

ServerInit ==
    /\ isDev \in BOOLEAN
    /\ store = << >>
    /\ memoryCache = << >>
    /\ cacheFresh = FALSE
    /\ mailbox = << >>
    /\ extractorRev = 1
    /\ req = [ r \in Reqs |-> IdleReq ]

RerunIdle ==
    settled = "none" /\ cycMode = "idle" /\ cycDepth = "" /\ notified = {}

ReconIdle == rStage = 0 /\ rHist = << >> /\ rBatch = << >> /\ rFirst = << >>

OrchIdle ==
    /\ isSyncingRef = FALSE
    /\ isLiveSync = TRUE
    /\ isHistoryLoaded = FALSE
    /\ syncStatus = "Initializing..."
    /\ cyc = [ c \in 1..MaxCycles |-> [ pc |-> "idle", retries |-> 0, depth |-> "" ] ]
    /\ lastTrigger = "none"

\* no saveSubscription call was made
NoSave == [ location |-> "", subscription |-> 0 ]

SubsIdle == lastSave = NoSave

\* no slot text is being processed
SlotIdle ==
    /\ slotIn = << >>
    /\ slotOut = << >>
    /\ permOut = << >>
    /\ slotStage = 0

PushIdle ==
    /\ memorySubscriptions = << >>
    /\ vapidKeys = TRUE
    /\ pushLoop = [ pc |-> "idle", todo |-> << >>, log |-> << >>,
                    success |-> FALSE ]

Init == ServerInit /\ RerunIdle /\ ReconIdle /\ OrchIdle /\ PushIdle /\ SlotIdle
        /\ SubsIdle

Next ==
    \/ \E r \in Reqs, depth \in {"", "all"}, readFail \in BOOLEAN,
          fault \in Faults :
          StartCycle(r, depth, readFail, fault) /\ UNCHANGED rerunVars
    \/ \E r \in Reqs, readFail \in BOOLEAN :
          ReadHistory(r, readFail) /\ UNCHANGED rerunVars
    \/ \E r \in Reqs, readFail \in BOOLEAN, writeFail \in BOOLEAN :
          SaveAndNotify(r, readFail, writeFail) /\ UNCHANGED rerunVars
    \/ \E r \in Reqs : Respond(r) /\ UNCHANGED rerunVars
    \/ \E fail \in BOOLEAN : ClearHistory(fail) /\ UNCHANGED rerunVars
    \/ \E t \in Arrivals(Len(mailbox) + 1) :
          MailArrives(t) /\ UNCHANGED rerunVars
    \/ Redeploy /\ UNCHANGED rerunVars
    \/ CacheExpires /\ UNCHANGED rerunVars
    \/ ColdStart /\ UNCHANGED rerunVars

Spec == Init /\ [][Next]_vars

----------------------------------------------------------------------------
(* SpecRerun: cycles run one after another by a single client, with a      *)
(* record of whether the running cycle repeats a completed one against an  *)
(* unchanged mailbox, store and extractor.                                 *)

\* the mailbox, the store or the extractor changed under the running cycle
Disturbed ==
    /\ settled' = "none"
    /\ cycMode' = IF cycMode = "idle" THEN "idle" ELSE "dirty"
    /\ cycDepth' = cycDepth

RerunStart(depth, readFail, fault) ==
    /\ StartCycle(1, depth, readFail, fault)
    /\ cycMode' = IF settled = depth THEN "rerun" ELSE "clean"
    /\ cycDepth' = depth
    /\ settled' = settled
    /\ notified' = notified

RerunRead(readFail) ==
    /\ ReadHistory(1, readFail)
    /\ UNCHANGED rerunVars

RerunSave(readFail, writeFail) ==
    /\ SaveAndNotify(1, readFail, writeFail)
    /\ settled' = IF store' # store THEN "none" ELSE settled
    /\ notified' = notified \cup { req'[1].pushed[k].id : k \in 1..Len(req'[1].pushed) }
    /\ UNCHANGED << cycMode, cycDepth >>

\* a cycle that ran undisturbed and without a store error has settled
RerunRespond ==
    /\ Respond(1)
    /\ settled' = IF /\ cycMode \in {"clean", "rerun"}
                     /\ req[1].success
                     /\ ~ req[1].storeErr
                  THEN cycDepth ELSE settled
    /\ cycMode' = "idle"
    /\ cycDepth' = ""
    /\ notified' = notified

RerunClear(fail) == ClearHistory(fail) /\ Disturbed /\ notified' = {}

RerunMail(t) == MailArrives(t) /\ Disturbed /\ notified' = {}

RerunRedeploy == Redeploy /\ Disturbed /\ notified' = notified

NextRerun ==
    \/ \E depth \in {"", "all"}, readFail \in BOOLEAN, fault \in Faults :
          RerunStart(depth, readFail, fault)
    \/ \E readFail \in BOOLEAN : RerunRead(readFail)
    \/ \E readFail \in BOOLEAN, writeFail \in BOOLEAN :
          RerunSave(readFail, writeFail)
    \/ RerunRespond
    \/ \E fail \in BOOLEAN : RerunClear(fail)
    \/ \E t \in Arrivals(Len(mailbox) + 1) : RerunMail(t)
    \/ RerunRedeploy
    \/ CacheExpires /\ UNCHANGED rerunVars
    \/ ColdStart /\ UNCHANGED rerunVars

SpecRerun == Init /\ [][NextRerun]_vars

----------------------------------------------------------------------------
(* SpecRecon: the reconciliation of route.ts:308-313 applied twice, with   *)
(* the same batch, to any history the store can hold.                      *)

\* the records extraction can produce for a uid
RecordsOf(uid) ==
    { Extract(uid, t, rev) :
        t \in { x \in Templates : Classify(x.header) # "none" }, rev \in 1..2 }

RECURSIVE SeqsOver(_)
\* every choice of one record per uid, for a sequence of uids
SeqsOver(uids) ==
    IF uids = << >> THEN { << >> }
    ELSE { << rec >> \o rest : rec \in RecordsOf(Head(uids)),
                                rest \in SeqsOver(Tail(uids)) }

RECURSIVE Orderings(_)
\* the sequences that list each element of S once
Orderings(S) ==
    IF S = {} THEN { << >> }
    ELSE UNION { { << x >> \o o : o \in Orderings(S \ {x}) } : x \in S }

\* what the store can hold: at most RetentionCap records, distinct ids
Histories ==
    UNION { SeqsOver(o) : o \in UNION { Orderings(S) :
               S \in { T \in SUBSET Uids : Cardinality(T) <= RetentionCap } } }

\* what a cycle can extract: one record for each of some uids, ascending
Batches ==
    UNION { SeqsOver(Ascending(S)) : S \in (SUBSET Uids) \ { {} } }

InitRecon ==
    /\ isDev \in BOOLEAN
    /\ store \in Histories
    /\ memoryCache \in (IF isDev THEN { << >> } ELSE { << >>, << store >> })
    /\ cacheFresh \in (IF memoryCache = << >> THEN { FALSE } ELSE BOOLEAN)
    /\ mailbox = << >>
    /\ extractorRev = 1
    /\ req = [ r \in Reqs |-> IdleReq ]
    /\ rStage = 0
    /\ rHist = store
    /\ rBatch = << >>
    /\ rFirst = << >>
    /\ RerunIdle
    /\ OrchIdle
    /\ PushIdle
    /\ SlotIdle
    /\ SubsIdle

\* route.ts:309-313 with no store error: read the history, merge, save
ReconcilePass(alerts) ==
    LET g == GetBookings(store, memoryCache, cacheFresh, FALSE)
        sv == Reconcile(g.result, alerts, store, g.cache, g.fresh,
                        FALSE, FALSE)
    IN  /\ store' = sv.store
        /\ memoryCache' = sv.cache
        /\ cacheFresh' = sv.fresh

ReconcileFirst(alerts) ==
    /\ rStage = 0
    /\ ReconcilePass(alerts)
    /\ rBatch' = alerts
    /\ rFirst' = store'
    /\ rStage' = 1
    /\ UNCHANGED << isDev, mailbox, extractorRev, req, rHist >>
    /\ UNCHANGED << rerunVars, orchVars, pushVars, slotVars, subsVars >>

ReconcileAgain ==
    /\ rStage = 1
    /\ ReconcilePass(rBatch)
    /\ rStage' = 2
    /\ UNCHANGED << isDev, mailbox, extractorRev, req, rHist, rBatch, rFirst >>
    /\ UNCHANGED << rerunVars, orchVars, pushVars, slotVars, subsVars >>

NextRecon ==
    \/ \E alerts \in Batches : ReconcileFirst(alerts)
    \/ ReconcileAgain

SpecRecon == InitRecon /\ [][NextRecon]_vars

----------------------------------------------------------------------------
(* SpecOrch: the orchestrator of the dashboard page (unnamed/part_000).    *)
(* cyc[c] is one invocation of checkEmails that got past its guard: it is  *)
(* "fetching" while its request is in flight and "retryWait" while its     *)
(* 5 s retry timer is pending.                                             *)

IdleCyc == [ pc |-> "idle", retries |-> 0, depth |-> "" ]

Fetching == { c \in 1..MaxCycles : cyc[c].pc = "fetching" }

\* part_000:171: the guard of checkEmails
Guarded(flag) == ~ isLiveSync \/ flag \/ ~ isHistoryLoaded

\* an orchestrator that also retries a response reporting failure
HandleSettledRetrying(retries, depth, threw, data) ==
    [ retry |-> ( threw \/ ~ data.success ) /\ retries > 0,
      status |-> IF retries > 0 THEN "Connection lost. Retrying in 5s..."
                 ELSE "Connection Failed" ]

\* part_000:177-233: what checkEmails(retries, depth) does once its fetch
\* has settled: threw says that fetch or res.json() threw, data is the
\* parsed body otherwise.  Yields the status shown and whether the retry
\* timer is set.
HandleSettled(retries, depth, threw, data) ==
    IF threw
    THEN [ retry |-> retries > 0,
           status |-> IF retries > 0 THEN "Connection lost. Retrying in 5s..."
                      ELSE "Connection Failed" ]
    ELSE IF data.success
    THEN [ retry |-> FALSE,
           status |-> IF data.alerts # << >> THEN "Updated N items"
                      ELSE IF depth = "all" THEN "Deep Sync Complete"
                      ELSE "Sync Active (Waiting)" ]
    ELSE [ retry |-> FALSE, status |-> "Sync Error: " \o data.message ]

\* part_000:170-177: checkEmails(retries, depth) called with the flag as it
\* is at the call; slot c holds the invocation if it passes the guard
CheckEmails(c, retries, depth, flag) ==
    IF Guarded(flag)
    THEN /\ lastTrigger' = "dropped"
         /\ isSyncingRef' = flag
         /\ UNCHANGED << syncStatus, cyc >>
    ELSE /\ lastTrigger' = "started"
         /\ isSyncingRef' = TRUE
         /\ syncStatus' = IF depth = "all" THEN "Deep Scanning All Mails..."
                          ELSE "Sync In Progress..."
         /\ cyc' = [ cyc EXCEPT ![c] = [ pc |-> "fetching",
                                         retries |-> retries,
                                         depth |-> depth ] ]

\* the lowest slot not in use
FreeSlot(c) ==
    /\ cyc[c].pc = "idle"
    /\ \A x \in 1..MaxCycles : x < c => cyc[x].pc # "idle"

\* part_000:36-56 and 244-247: the history load finishes and the effect
\* runs checkEmails()
HistoryLoaded(c) ==
    /\ ~ isHistoryLoaded
    /\ FreeSlot(c)
    /\ isHistoryLoaded' = TRUE
    /\ lastTrigger' = "started"
    /\ isSyncingRef' = TRUE
    /\ syncStatus' = "Sync In Progress..."
    /\ cyc' = [ cyc EXCEPT ![c] = [ pc |-> "fetching", retries |-> 1,
                                    depth |-> "" ] ]
    /\ UNCHANGED isLiveSync
    /\ UNCHANGED << serverVars, rerunVars, reconVars, pushVars, slotVars, subsVars >>

\* part_000:249: setInterval(checkEmails, 60000)
IntervalTick(c) ==
    /\ FreeSlot(c)
    /\ CheckEmails(c, 1, "", isSyncingRef)
    /\ UNCHANGED << isLiveSync, isHistoryLoaded >>
    /\ UNCHANGED << serverVars, rerunVars, reconVars, pushVars, slotVars, subsVars >>

\* part_000:239-242
HandleDeepSync(c) ==
    /\ FreeSlot(c)
    /\ CheckEmails(c, 1, "all", isSyncingRef)
    /\ UNCHANGED << isLiveSync, isHistoryLoaded >>
    /\ UNCHANGED << serverVars, rerunVars, reconVars, pushVars, slotVars, subsVars >>

\* the bodies the route answers with: alerts, no alerts, and its two
\* failure responses (route.ts:328, 90, 335-338)
Responses ==
    { ResponseOf([ IdleReq EXCEPT !.alerts = << Extract(1, t, 2) >> ]) :
        t \in Arrivals(1) }
    \cup { ResponseOf(IdleReq) }
    \cup { ResponseOf([ IdleReq EXCEPT !.success = FALSE, !.message = m ]) :
             m \in {NoCredentials, SyncError("connect")} }

\* an orchestrator that keeps the flag after a response reporting failure
FetchReturnsHolding(c, data) ==
    /\ cyc[c].pc = "fetching"
    /\ LET h == HandleSettled(cyc[c].retries, cyc[c].depth, FALSE, data)
       IN  /\ syncStatus' = h.status
           /\ cyc' = [ cyc EXCEPT ![c] =
                         IF h.retry THEN [ @ EXCEPT !.pc = "retryWait" ]
                         ELSE IdleCyc ]
    /\ isSyncingRef' = IF data.success THEN FALSE ELSE isSyncingRef
    /\ UNCHANGED << isLiveSync, isHistoryLoaded, lastTrigger >>
    /\ UNCHANGED << serverVars, rerunVars, reconVars, pushVars, slotVars, subsVars >>

\* part_000:177-225, 234-236: the request returns a response
FetchReturns(c, data) ==
    /\ cyc[c].pc = "fetching"
    /\ LET h == HandleSettled(cyc[c].retries, cyc[c].depth, FALSE, data)
       IN  /\ syncStatus' = h.status
           /\ cyc' = [ cyc EXCEPT ![c] =
                         IF h.retry THEN [ @ EXCEPT !.pc = "retryWait" ]
                         ELSE IdleCyc ]
    /\ isSyncingRef' = FALSE
    /\ UNCHANGED << isLiveSync, isHistoryLoaded, lastTrigger >>
    /\ UNCHANGED << serverVars, rerunVars, reconVars, pushVars, slotVars, subsVars >>

\* part_000:226-236: fetch or res.json() throws
FetchThrows(c) ==
    /\ cyc[c].pc = "fetching"
    /\ LET h == HandleSettled(cyc[c].retries, cyc[c].depth, TRUE,
                              ResponseOf(IdleReq))
       IN  /\ syncStatus' = h.status
           /\ cyc' = [ cyc EXCEPT ![c] =
                         IF h.retry THEN [ @ EXCEPT !.pc = "retryWait" ]
                         ELSE IdleCyc ]
    /\ isSyncingRef' = FALSE
    /\ UNCHANGED << isLiveSync, isHistoryLoaded, lastTrigger >>
    /\ UNCHANGED << serverVars, rerunVars, reconVars, pushVars, slotVars, subsVars >>

\* a retry that forgets the scan depth
RetryFiresShallow(c) ==
    /\ cyc[c].pc = "retryWait"
    /\ IF Guarded(FALSE)
       THEN /\ lastTrigger' = "dropped"
            /\ cyc' = [ cyc EXCEPT ![c] = IdleCyc ]
            /\ isSyncingRef' = FALSE
            /\ UNCHANGED syncStatus
       ELSE CheckEmails(c, cyc[c].retries - 1, "", FALSE)
    /\ UNCHANGED << isLiveSync, isHistoryLoaded >>
    /\ UNCHANGED << serverVars, rerunVars, reconVars, pushVars, slotVars, subsVars >>

\* part_000:230: the retry timer fires: the flag is cleared, then
\* checkEmails(retries - 1, depth) is called
RetryFires(c) ==
    /\ cyc[c].pc = "retryWait"
    /\ IF Guarded(FALSE)
       THEN /\ lastTrigger' = "dropped"
            /\ cyc' = [ cyc EXCEPT ![c] = IdleCyc ]
            /\ isSyncingRef' = FALSE
            /\ UNCHANGED syncStatus
       ELSE CheckEmails(c, cyc[c].retries - 1, cyc[c].depth, FALSE)
    /\ UNCHANGED << isLiveSync, isHistoryLoaded >>
    /\ UNCHANGED << serverVars, rerunVars, reconVars, pushVars, slotVars, subsVars >>

InitOrch ==
    /\ isDev = TRUE
    /\ store = << >>
    /\ memoryCache = << >>
    /\ cacheFresh = FALSE
    /\ mailbox = << >>
    /\ extractorRev = 1
    /\ req = [ r \in Reqs |-> IdleReq ]
    /\ RerunIdle
    /\ ReconIdle
    /\ OrchIdle
    /\ PushIdle
    /\ SlotIdle
    /\ SubsIdle

NextOrch ==
    \/ \E c \in 1..MaxCycles : HistoryLoaded(c)
    \/ \E c \in 1..MaxCycles : IntervalTick(c)
    \/ \E c \in 1..MaxCycles : HandleDeepSync(c)
    \/ \E c \in 1..MaxCycles, data \in Responses : FetchReturns(c, data)
    \/ \E c \in 1..MaxCycles : FetchThrows(c)
    \/ \E c \in 1..MaxCycles : RetryFires(c)

SpecOrch == InitOrch /\ [][NextOrch]_vars

\* part_000:175-176: a request in flight settles: fetch and res.json()
\* resolve or throw
FetchSettles ==
    \E c \in 1..MaxCycles :
        \/ \E data \in Responses : FetchReturns(c, data)
        \/ FetchThrows(c)

\* the orchestrator when every request it sends returns
SpecOrchLive == InitOrch /\ [][NextOrch]_vars /\ WF_vars(FetchSettles)

----------------------------------------------------------------------------
(* SpecPush: the push loop of route.ts:316-325 over the new alerts of a    *)
(* cycle, sendPushNotification (utils/push.ts, unnamed/part_005) and the   *)
(* subscription registry (utils/subscriptions.ts).                         *)

MaxSubs == 3           \* browsers that ever subscribe
MaxNew == 2            \* new alerts of one cycle

Subscribers == 1..MaxSubs

\* the locations a dashboard registers a subscription for
SubLocations == {"Andheri", "Thane"}

\* route.ts:203-210: the locations extraction assigns to an alert
AlertLocations == {"Andheri", "Thane", "Unknown Location", "Security/Admin"}

\* route.ts:204: the location of an alert whose text names no known facility
UnknownLocation == "Unknown Location"

RECURSIVE SeqsUpTo(_, _)
\* the sequences over S of length at most n
SeqsUpTo(S, n) ==
    IF n = 0 THEN { << >> }
    ELSE SeqsUpTo(S, n - 1) \cup
         { Append(q, x) : q \in { y \in SeqsUpTo(S, n - 1) : Len(y) = n - 1 },
                          x \in S }

\* subscriptions.ts:62-76: in Redis mode a failing GET yields []
GetSubscriptions(fail) ==
    IF isDev THEN memorySubscriptions
    ELSE IF fail THEN << >> ELSE memorySubscriptions

\* part_005:37-40
TargetSubs(subscriptions, location) ==
    SelectSeq(subscriptions,
              LAMBDA sub : IF location \in {"", "Unknown", "General"}
                           THEN TRUE
                           ELSE sub.location = location)

\* the first index in 1..n whose subscriber is in fails, or n if none is
FirstFailure(targetSubs, fails) ==
    IF \E i \in 1..Len(targetSubs) : targetSubs[i].subscription \in fails
    THEN CHOOSE i \in 1..Len(targetSubs) :
            /\ targetSubs[i].subscription \in fails
            /\ \A j \in 1..(i - 1) : targetSubs[j].subscription \notin fails
    ELSE Len(targetSubs)

\* deliveries made one after another, the first rejection ending them
SendInTurn(targetSubs, fails) ==
    LET attempted == { targetSubs[i].subscription :
                          i \in 1..FirstFailure(targetSubs, fails) }
    IN  [ attempted |-> attempted, delivered |-> attempted \ fails ]

\* part_005:44-54: one webpush.sendNotification per target, each with its
\* own catch, awaited together; fails are the subscribers whose push
\* service rejects (404 and 410 included)
SendAll(targetSubs, fails) ==
    LET attempted == { targetSubs[i].subscription : i \in 1..Len(targetSubs) }
    IN  [ attempted |-> attempted, delivered |-> attempted \ fails ]

\* part_005:30-55
SendPushNotification(location, fails, subsFail) ==
    IF ~ vapidKeys
    THEN [ location |-> location, attempted |-> {}, delivered |-> {},
           subsErr |-> FALSE ]
    ELSE LET subscriptions == GetSubscriptions(subsFail)
             sent == SendAll(TargetSubs(subscriptions, location), fails)
         IN  [ location |-> location, attempted |-> sent.attempted,
               delivered |-> sent.delivered,
               subsErr |-> ~ isDev /\ subsFail ]

\* subscriptions.ts:34-60.  In Redis mode the list is read with
\* getSubscriptions (readFail: the GET throws) and written with client.set
\* (writeFail: the SET throws, or there is no client); the catch block
\* only logs.
SaveSubscription(location, subscription, readFail, writeFail) ==
    /\ LET newSub == [ location |-> location, subscription |-> subscription ]
           current == GetSubscriptions(readFail)
           filtered == SelectSeq(current,
                                 LAMBDA s : s.subscription # subscription)
       IN  memorySubscriptions' =
             IF ~ isDev /\ writeFail THEN memorySubscriptions
             ELSE Append(filtered, newSub)
    /\ UNCHANGED << vapidKeys, pushLoop >>
    /\ UNCHANGED << serverVars, rerunVars, reconVars, orchVars, slotVars >>

\* route.ts:316-318: the loop starts over the alerts that are new
PushLoopStarts(locations) ==
    /\ pushLoop.pc = "idle"
    /\ locations # << >>
    /\ pushLoop' = [ pc |-> "loop", todo |-> locations, log |-> << >>,
                     success |-> FALSE ]
    /\ UNCHANGED << memorySubscriptions, vapidKeys >>
    /\ UNCHANGED << serverVars, rerunVars, reconVars, orchVars, slotVars, subsVars >>

\* route.ts:319-323: the next new alert is notified
PushNext(fails, subsFail) ==
    /\ pushLoop.pc = "loop"
    /\ pushLoop.todo # << >>
    /\ pushLoop' = [ pushLoop EXCEPT
          !.todo = Tail(@),
          !.log = Append(@, SendPushNotification(Head(pushLoop.todo), fails,
                                                 subsFail)) ]
    /\ UNCHANGED << memorySubscriptions, vapidKeys >>
    /\ UNCHANGED << serverVars, rerunVars, reconVars, orchVars, slotVars, subsVars >>

\* route.ts:328: the loop is over and the response is built
PushLoopEnds ==
    /\ pushLoop.pc = "loop"
    /\ pushLoop.todo = << >>
    /\ pushLoop' = [ pushLoop EXCEPT !.pc = "done", !.success = TRUE ]
    /\ UNCHANGED << memorySubscriptions, vapidKeys >>
    /\ UNCHANGED << serverVars, rerunVars, reconVars, orchVars, slotVars, subsVars >>

\* the response has been returned
PushReturns ==
    /\ pushLoop.pc = "done"
    /\ pushLoop' = [ pc |-> "idle", todo |-> << >>, log |-> << >>,
                     success |-> FALSE ]
    /\ UNCHANGED << memorySubscriptions, vapidKeys >>
    /\ UNCHANGED << serverVars, rerunVars, reconVars, orchVars, slotVars, subsVars >>

InitPush ==
    /\ isDev \in BOOLEAN
    /\ store = << >>
    /\ memoryCache = << >>
    /\ cacheFresh = FALSE
    /\ mailbox = << >>
    /\ extractorRev = 1
    /\ req = [ r \in Reqs |-> IdleReq ]
    /\ RerunIdle
    /\ ReconIdle
    /\ OrchIdle
    /\ memorySubscriptions = << >>
    /\ vapidKeys \in BOOLEAN
    /\ pushLoop = [ pc |-> "idle", todo |-> << >>, log |-> << >>,
                    success |-> FALSE ]
    /\ SlotIdle
    /\ SubsIdle

NextPush ==
    \/ \E location \in SubLocations, subscription \in Subscribers,
          readFail \in BOOLEAN, writeFail \in BOOLEAN :
          /\ SaveSubscription(location, subscription, readFail, writeFail)
          /\ UNCHANGED subsVars
    \/ \E locations \in SeqsUpTo(AlertLocations, MaxNew) :
          PushLoopStarts(locations)
    \/ \E fails \in SUBSET Subscribers, subsFail \in BOOLEAN :
          PushNext(fails, subsFail)
    \/ PushLoopEnds
    \/ PushReturns

SpecPush == InitPush /\ [][NextPush]_vars

----------------------------------------------------------------------------
(* SpecSubs: saveSubscription calls made one after the other, with a       *)
(* record of the latest call's arguments.                                  *)

SubsSave(location, subscription, readFail, writeFail) ==
    /\ SaveSubscription(location, subscription, readFail, writeFail)
    /\ lastSave' = [ location |-> location, subscription |-> subscription ]

InitSubs ==
    /\ isDev \in BOOLEAN
    /\ store = << >>
    /\ memoryCache = << >>
    /\ cacheFresh = FALSE
    /\ mailbox = << >>
    /\ extractorRev = 1
    /\ req = [ r \in Reqs |-> IdleReq ]
    /\ RerunIdle
    /\ ReconIdle
    /\ OrchIdle
    /\ PushIdle
    /\ SlotIdle
    /\ SubsIdle

NextSubs ==
    \E location \in SubLocations, subscription \in Subscribers,
       readFail \in BOOLEAN, writeFail \in BOOLEAN :
       SubsSave(location, subscription, readFail, writeFail)

SpecSubs == InitSubs /\ [][NextSubs]_vars

----------------------------------------------------------------------------
(* SpecSlot: extractTimeOnly (route.ts:40-81) applied to the time matches  *)
(* of a slot text and to a reordering of them.                             *)

MaxRanges == 3         \* time matches in one slot text

\* clock times as they are written in a slot text; 9 PM also zero-padded
ClockTexts ==
    { [h |-> 9, ap |-> "PM", text |-> "9:00 PM"],
      [h |-> 9, ap |-> "PM", text |-> "09:00 PM"],
      [h |-> 10, ap |-> "PM", text |-> "10:00 PM"],
      [h |-> 11, ap |-> "PM", text |-> "11:00 PM"],
      [h |-> 1, ap |-> "AM", text |-> "1:00 AM"] }

\* route.ts:41: a match is one clock time, or two joined by a dash
TimeMatches ==
    { << a >> : a \in ClockTexts } \cup
    { << a, b >> : a \in ClockTexts, b \in ClockTexts }

\* route.ts:49-50: new Date(`2000/01/01 ${text}`).getTime(), in minutes of
\* that day
ParseTime(c) == ((c.h % 12) + (IF c.ap = "PM" THEN 12 ELSE 0)) * 60

\* the clock time a text of the output reads as
TimeOfText(text) ==
    ParseTime(CHOOSE c \in ClockTexts : c.text = text)

\* route.ts:45-52
ToRange(t) ==
    [ start |-> t[1].text, end |-> t[Len(t)].text,
      startT |-> ParseTime(t[1]), endT |-> ParseTime(t[Len(t)]) ]

\* route.ts:45: Array.from(new Set(timeMatches))
DedupMatches(timeMatches) == DistinctFrom(timeMatches, {})

RECURSIVE SortByStart(_)
\* route.ts:55: Array.prototype.sort with (a, b) => a.startT - b.startT,
\* which is stable: equal starts keep their order
SortByStart(ranges) ==
    IF ranges = << >> THEN << >>
    ELSE LET n == Len(ranges)
             first == SortByStart(SubSeq(ranges, 1, n - 1))
             r == ranges[n]
             before == SelectSeq(first, LAMBDA x : x.startT <= r.startT)
             after == SelectSeq(first, LAMBDA x : x.startT > r.startT)
         IN  before \o << r >> \o after

\* route.ts:59-78: one turn of the merge loop
MergeStep(merged, r) ==
    IF merged = << >> THEN << r >>
    ELSE LET n == Len(merged)
             last == merged[n]
         IN  IF r.startT = last.endT
             THEN [ merged EXCEPT ![n].end = r.end, ![n].endT = r.endT ]
             ELSE IF r.startT < last.endT
             THEN IF r.endT > last.endT
                  THEN [ merged EXCEPT ![n].end = r.end, ![n].endT = r.endT ]
                  ELSE merged
             ELSE Append(merged, r)

RECURSIVE MergeAll(_, _)
\* route.ts:58-78
MergeAll(merged, ranges) ==
    IF ranges = << >> THEN merged
    ELSE MergeAll(MergeStep(merged, Head(ranges)), Tail(ranges))

\* route.ts:40-81.  The result is the list of segments; the string returned
\* joins the texts of a segment by " - " and the segments by " | " (and is
\* "" for no match).
ExtractTimeOnly(timeMatches) ==
    LET deduped == DedupMatches(timeMatches)
        ranges == SortByStart([ i \in 1..Len(deduped) |-> ToRange(deduped[i]) ])
        merged == MergeAll(<< >>, ranges)
    IN  [ i \in 1..Len(merged) |->
            IF merged[i].start = merged[i].end
            THEN << merged[i].start >>
            ELSE << merged[i].start, merged[i].end >> ]

\* bookingSlot is passed to extractTimeOnly (route.ts:285)
ExtractSlot ==
    /\ slotStage = 0
    /\ slotOut' = ExtractTimeOnly(slotIn)
    /\ slotStage' = 1
    /\ UNCHANGED << slotIn, permOut >>
    /\ UNCHANGED << serverVars, rerunVars, reconVars, orchVars, pushVars,
                    subsVars >>

\* the same matches in the order p are passed to extractTimeOnly
ExtractPermuted(p) ==
    /\ slotStage = 1
    /\ permOut' = ExtractTimeOnly([ i \in 1..Len(slotIn) |-> slotIn[p[i]] ])
    /\ slotStage' = 2
    /\ UNCHANGED << slotIn, slotOut >>
    /\ UNCHANGED << serverVars, rerunVars, reconVars, orchVars, pushVars,
                    subsVars >>

InitSlot ==
    /\ isDev = TRUE
    /\ store = << >>
    /\ memoryCache = << >>
    /\ cacheFresh = FALSE
    /\ mailbox = << >>
    /\ extractorRev = 1
    /\ req = [ r \in Reqs |-> IdleReq ]
    /\ RerunIdle
    /\ ReconIdle
    /\ OrchIdle
    /\ PushIdle
    /\ slotIn \in SeqsUpTo(TimeMatches, MaxRanges)
    /\ slotOut = << >>
    /\ permOut = << >>
    /\ slotStage = 0
    /\ SubsIdle

NextSlot ==
    \/ ExtractSlot
    \/ \E p \in Orderings(1..Len(slotIn)) : ExtractPermuted(p)

SpecSlot == InitSlot /\ [][NextSlot]_vars

----------------------------------------------------------------------------
(* Claims *)

\* request r takes the step of route.ts:310-326 (merge, save, notify)
SaveStep(r) == req[r].pc = "save" /\ req'[r].pc = "respond"

\* the merged list request r hands to saveBookings
Merged(r) == Unique(req[r].hist \o req[r].alerts)

\* C1: in every reachable state of the persisted store no two records have
\* the same id.
C1_UniqueIds ==
    \A i, j \in 1..Len(store) : store[i].id = store[j].id => i = j

\* C1 witness: a cycle has merged a batch holding both a re-extracted id and
\* a new id, and the store holds the batch's records.
C1_Witness ==
    \E r \in Reqs :
        /\ req[r].pc = "respond"
        /\ req[r].success
        /\ Len(req[r].alerts) = 2
        /\ Len(req[r].pushed) = 1
        /\ Range(req[r].alerts) = Range(store)

\* C2: at most one checkEmails request of an orchestrator is in flight at
\* any time.
C2_SingleActiveCycle == Cardinality(Fetching) <= 1

\* C3: after a cycle has reconciled its batch with the history, with the
\* merged count within the retention cap and no store error, a read of the
\* store returns the batch's record for every id of the batch.
C3_BatchPersisted ==
    [][ \A r \in Reqs :
          ( /\ SaveStep(r)
            /\ req'[r].success
            /\ ~ req'[r].storeErr
            /\ Len(Merged(r)) <= RetentionCap )
          => \A i \in 1..Len(req[r].alerts) :
                req[r].alerts[i] \in
                  Range(GetBookings(store', memoryCache', cacheFresh',
                                    FALSE).result) ]_vars

\* C4: a cycle leaves every persisted record that is non-stale, or whose id
\* is absent from the batch, in the store as it was.
C4_NonOfferedUntouched ==
    [][ \A r \in Reqs :
          SaveStep(r)
          => \A i \in 1..Len(store) :
                ( ~ Stale(store[i]) \/ store[i].id \notin Ids(req[r].alerts) )
                => store[i] \in Range(store') ]_vars

\* C5: reconciling a batch against a history and then the same batch against
\* the result leaves the store as the first reconciliation left it.
C5_ReconcileIdempotent == rStage = 2 => store = rFirst

\* C5 witness: the batch offered twice replaced a record of the starting
\* history by a different one and inserted a new id.
C5_Witness ==
    /\ rStage = 2
    /\ \E i \in 1..Len(rHist), j \in 1..Len(rBatch) :
          /\ rHist[i].id = rBatch[j].id
          /\ rHist[i] # rBatch[j]
          /\ rBatch[j] \in Range(store)
    /\ \E k \in 1..Len(rBatch) :
          /\ rBatch[k].id \notin Ids(rHist)
          /\ rBatch[k] \in Range(store)

\* C6: a cycle that re-runs a completed cycle against an unchanged mailbox
\* and store leaves the persisted history as it was.
C6_RerunLeavesHistory ==
    [][ ( /\ cycMode = "rerun"
          /\ req[1].pc = "save"
          /\ req'[1].pc = "respond" ) => store' = store ]_vars

\* C7: no sync cycle deletes a persisted id, unless the retention cap
\* truncates the merged list.
C7_NoCycleDeletes ==
    [][ \A r \in Reqs :
          ( SaveStep(r) /\ Len(Merged(r)) <= RetentionCap )
          => Ids(store) \subseteq Ids(store') ]_vars

\* C8: when the merged list exceeds the retention cap, the store keeps
\* exactly RetentionCap records and every record kept is newer than every
\* record dropped.
C8_OverflowKeepsNewest ==
    [][ \A r \in Reqs :
          ( /\ SaveStep(r)
            /\ req'[r].success
            /\ ~ req'[r].storeErr
            /\ Len(Merged(r)) > RetentionCap )
          => /\ Len(store') = RetentionCap
             /\ \A kept \in Range(store') :
                  \A dropped \in Range(Merged(r)) \ Range(store') :
                     kept.timestamp > dropped.timestamp ]_vars

\* C9: the persisted records are in newest-first order.
C9_NewestFirst ==
    \A i, j \in 1..Len(store) :
        i < j => store[i].timestamp >= store[j].timestamp

\* C10: a completed cycle dispatches exactly one payload for each batch
\* record whose id is absent from the history read before the merge, and
\* none for a batch record whose id is in that history.
C10_OnePayloadPerNew ==
    [][ \A r \in Reqs :
          ( SaveStep(r) /\ req'[r].success )
          => \A id \in Uids :
                Cardinality({ i \in 1..Len(req'[r].pushed) :
                                req'[r].pushed[i].id = id })
                = IF id \in Ids(req[r].alerts) \ Ids(req[r].hist)
                  THEN 1 ELSE 0 ]_vars

\* C10 witness: a completed cycle whose batch held a new record, which was
\* notified, and a re-extracted stale record, which was not.
C10_Witness ==
    \E r \in Reqs :
        /\ req[r].pc = "respond"
        /\ req[r].success
        /\ Len(req[r].pushed) >= 1
        /\ \E i \in 1..Len(req[r].alerts) :
              /\ Stale(req[r].alerts[i])
              /\ \A k \in 1..Len(req[r].pushed) :
                    req[r].pushed[k].id # req[r].alerts[i].id

\* the subscribers registered for a location
RegisteredFor(location) ==
    { memorySubscriptions[i].subscription :
        i \in { k \in 1..Len(memorySubscriptions) :
                  memorySubscriptions[k].location = location } }

\* every registered subscriber
AllRegistered ==
    { memorySubscriptions[i].subscription : i \in 1..Len(memorySubscriptions) }

\* the push loop notifies its next new alert
PushStep ==
    /\ pushLoop.pc = "loop"
    /\ Len(pushLoop'.log) = Len(pushLoop.log) + 1

\* what the step just logged
Logged == pushLoop'.log[Len(pushLoop'.log)]

\* C11: with the keys configured and the subscriptions read, the payload of
\* a new record goes to every registered subscriber when the record's
\* location is the extractor's unknown value, and otherwise to exactly the
\* subscribers registered for the record's location.
C11_BroadcastOrTargeted ==
    [][ ( PushStep /\ vapidKeys /\ ~ Logged.subsErr )
        => Logged.attempted =
              IF Head(pushLoop.todo) = UnknownLocation
              THEN AllRegistered
              ELSE RegisteredFor(Head(pushLoop.todo)) ]_vars

\* C12: with the keys configured and the subscriptions read, a new record
\* with a known location is attempted for every subscriber registered for
\* it whichever deliveries fail, the loop goes on to the next new record,
\* and a finished loop reports success.
C12_DeliveriesIsolated ==
    [][ /\ ( PushStep /\ vapidKeys /\ ~ Logged.subsErr
             /\ Head(pushLoop.todo) # UnknownLocation )
           => /\ RegisteredFor(Head(pushLoop.todo)) \subseteq Logged.attempted
              /\ pushLoop'.pc = "loop"
              /\ pushLoop'.todo = Tail(pushLoop.todo)
        /\ ( pushLoop.pc = "loop" /\ pushLoop'.pc = "done" )
           => /\ pushLoop'.success
              /\ pushLoop.todo = << >> ]_vars

\* C12 witness: a finished loop whose first record went to three
\* subscribers of its location, one delivery failing and two succeeding,
\* and whose second record was delivered too.
C12_Witness ==
    /\ pushLoop.pc = "done"
    /\ pushLoop.success
    /\ Len(pushLoop.log) = 2
    /\ Cardinality(pushLoop.log[1].attempted) = 3
    /\ Cardinality(pushLoop.log[1].delivered) = 2
    /\ pushLoop.log[2].delivered # {}

\* cycle c's fetch has thrown in this step
Threw(c) ==
    /\ cyc[c].pc = "fetching"
    /\ cyc'[c].pc # "fetching"
    /\ syncStatus' \in {"Connection lost. Retrying in 5s...",
                        "Connection Failed"}

\* C13: a cycle whose fetch throws waits for the retry timer and is then
\* attempted once more with the same scan depth and no retry left; when
\* that attempt throws too the cycle ends with the status Connection Failed
\* and no timer is set.
C13_RetryOnce ==
    [][ \A c \in 1..MaxCycles :
          /\ ( Threw(c) /\ cyc[c].retries = 1 )
             => /\ cyc'[c] = [ cyc[c] EXCEPT !.pc = "retryWait" ]
                /\ syncStatus' = "Connection lost. Retrying in 5s..."
          /\ ( cyc[c].pc = "retryWait" /\ cyc'[c] # cyc[c] )
             => cyc'[c] = [ pc |-> "fetching", retries |-> 0,
                            depth |-> cyc[c].depth ]
          /\ ( Threw(c) /\ cyc[c].retries = 0 )
             => /\ cyc'[c] = IdleCyc
                /\ syncStatus' = "Connection Failed"
          /\ ( cyc'[c].pc = "retryWait" /\ cyc[c].pc # "retryWait" )
             => ( Threw(c) /\ cyc[c].retries = 1 ) ]_vars

\* C13 witness: the retry of a deep scan is in flight, with the deep scan's
\* depth and no retry left.
C13_Witness ==
    \E c \in 1..MaxCycles :
        cyc[c] = [ pc |-> "fetching", retries |-> 0, depth |-> "all" ]

\* request r fails in this step with the given message
FailsWith(r, message) ==
    /\ req[r].pc = "idle"
    /\ req'[r].pc = "respond"
    /\ ~ req'[r].success
    /\ req'[r].message = message

\* C14: when connecting to the mailbox or opening the inbox fails, the
\* orchestrator that receives the cycle's response sets its retry timer.
C14_ConnectionErrorRetried ==
    [][ \A r \in Reqs :
          ( \/ FailsWith(r, SyncError("connect"))
            \/ FailsWith(r, SyncError("openBox")) )
          => \A depth \in {"", "all"} :
                HandleSettled(1, depth, FALSE, ResponseOf(req'[r])).retry
      ]_vars

\* C15: a cycle started without mailbox credentials fails at once: no
\* connection is made, the store and its cache are neither read nor
\* written, nothing is notified, and the orchestrator that receives the
\* response sets no retry timer.
C15_NoCredentialsFailsFast ==
    [][ \A r \in Reqs :
          FailsWith(r, NoCredentials)
          => /\ req'[r].conn = "none"
             /\ req'[r].reads = 0
             /\ store' = store
             /\ memoryCache' = memoryCache
             /\ cacheFresh' = cacheFresh
             /\ req'[r].pushed = << >>
             /\ \A depth \in {"", "all"}, retries \in 0..1 :
                  ~ HandleSettled(retries, depth, FALSE,
                                  ResponseOf(req'[r])).retry ]_vars

\* C15 witness: a request has failed for missing credentials while the
\* store holds records and another request is in its merge.
C15_Witness ==
    \E r, o \in Reqs :
        /\ req[r].pc = "respond"
        /\ req[r].message = NoCredentials
        /\ req[o].pc = "save"
        /\ store # << >>

\* C16: a cycle that returns its response, or has returned it, holds no
\* open mailbox connection.
C16_ConnectionReleased ==
    \A r \in Reqs : req[r].pc \in {"idle", "respond"} => req[r].conn # "open"

\* C16 witness: one request is answering after an error that followed the
\* connection, its connection ended, while another has answered with
\* success after a merge, its connection ended too.
C16_Witness ==
    \E r, o \in Reqs :
        /\ req[r].pc = "respond"
        /\ ~ req[r].success
        /\ req[r].conn = "ended"
        /\ req[o].pc = "respond"
        /\ req[o].success
        /\ req[o].alerts # << >>
        /\ req[o].conn = "ended"

\* C17: a cycle that ends with success has called getBookings exactly once.
C17_HistoryReadOnce ==
    \A r \in Reqs :
        ( req[r].pc = "respond" /\ req[r].success ) => req[r].reads = 1

\* C18: a cycle in which the extraction of a candidate message throws does
\* not report failure.
C18_ExtractionErrorSkipped ==
    [][ \A r \in Reqs :
          ( /\ req[r].pc = "idle"
            /\ req'[r].pc # "idle"
            /\ req'[r].message = SyncError("extract") )
          => req'[r].success ]_vars

\* C19: a cycle that met a store read or write failure reports success,
\* unless it failed for a mailbox or extraction error.
C19_StoreErrorTolerated ==
    \A r \in Reqs :
        ( req[r].storeErr /\ ~ req[r].success )
        => req[r].message \in
              { SyncError(f) : f \in {"connect", "openBox", "search",
                                      "extract"} }

\* unnamed/part_006:237-245: stale on any of bookingSlot, gameDate,
\* location, bookingName, paidAmount; a field the record lacks counts as
\* unresolved
StaleOnAnyField(h) ==
    \/ h.bookingSlot = "MISSING"
    \/ h.gameDate \in {"TBD", "MISSING", ""}
    \/ h.location = "Unknown Location"
    \/ "bookingName" \notin DOMAIN h
    \/ ( "bookingName" \in DOMAIN h /\ h["bookingName"] \in {"", "N/A"} )
    \/ "paidAmount" \notin DOMAIN h
    \/ ( "paidAmount" \in DOMAIN h /\ h["paidAmount"] \in {"", "N/A"} )

\* C20: a cycle that reads the history without a store error re-extracts a
\* persisted record whose message is inside both lookback windows if and
\* only if the record is stale on one of bookingSlot, gameDate, location,
\* customer name, paid amount.
C20_ReofferedIffStale ==
    [][ \A r \in Reqs :
          ( /\ req[r].pc = "idle"
            /\ req'[r].pc \in {"merge", "respond"}
            /\ req'[r].success
            /\ ~ req'[r].storeErr
            /\ isDev )
          => \A i \in 1..Len(store) :
                store[i].id \notin OldUids
                => ( store[i].id \in Ids(req'[r].alerts)
                     <=> StaleOnAnyField(store[i]) ) ]_vars

\* the fields the record must carry resolved or as a sentinel
RecordFields ==
    {"location", "bookingSlot", "gameDate", "gameTime", "sport",
     "customerName", "paidAmount"}

\* C21: every persisted record carries each of location, bookingSlot,
\* gameDate, gameTime, sport, customerName and paidAmount, and none of them
\* is empty.
C21_FieldsResolvedOrSentinel ==
    \A i \in 1..Len(store) :
        \A f \in RecordFields :
            f \in DOMAIN store[i] /\ store[i][f] # ""

\* the messages of the mailbox whose header holds both a review keyword and
\* a platform keyword
ReviewOfPlatform ==
    { u \in 1..Len(mailbox) :
        /\ mailbox[u].header \cap ReviewKeywords # {}
        /\ mailbox[u].header \cap {"playo", "hudle", "district", "khelomore",
                                   "khelo more"} # {} }

\* C22: a message whose header holds a review keyword next to a platform
\* keyword gets no platform and is in no cycle's batch.
C22_ReviewRejected ==
    \A u \in ReviewOfPlatform :
        /\ Classify(mailbox[u].header) = "none"
        /\ \A r \in Reqs : u \notin Ids(req[r].alerts)

\* C22 witness: a deep cycle has extracted a batch from a mailbox that
\* holds a review message of a platform.
C22_Witness ==
    /\ ReviewOfPlatform # {}
    /\ \E r \in Reqs :
          /\ req[r].pc = "respond"
          /\ req[r].success
          /\ Len(req[r].alerts) = 2

\* the messages of the mailbox the classifier assigns no platform to
Unclassified ==
    { u \in 1..Len(mailbox) : Classify(mailbox[u].header) = "none" }

\* C23: a message without a platform is never in the store and never among
\* the notified records of a cycle.
C23_UnclassifiedDiscarded ==
    \A u \in Unclassified :
        /\ u \notin Ids(store)
        /\ \A r \in Reqs :
              \A k \in 1..Len(req[r].pushed) : req[r].pushed[k].id # u

\* C23 witness: the mailbox holds a message without any platform keyword
\* and a review message, and a deep cycle has persisted and notified the
\* third message only.
C23_Witness ==
    /\ Cardinality(Unclassified) = 2
    /\ \E u \in Unclassified : mailbox[u].header \cap ReviewKeywords = {}
    /\ Len(store) = 1
    /\ \E r \in Reqs :
          /\ req[r].pc = "respond"
          /\ Len(req[r].pushed) = 1

\* the larger of two numbers
Max(a, b) == IF a >= b THEN a ELSE b

\* the interval << start, end >> in minutes a range from the clock time
\* startT to the clock time endT covers: an end that is earlier on the
\* clock than the start is on the next day
Span(startT, endT) ==
    << startT, IF endT < startT THEN endT + 24 * 60 ELSE endT >>

RECURSIVE RuleMerge(_, _)
\* the merge rule: a range that starts at or before the end of the current
\* interval extends that end to the larger of the two ends; any other
\* range opens a new interval
RuleMerge(intervals, spans) ==
    IF spans = << >> THEN intervals
    ELSE LET r == Head(spans)
             n == Len(intervals)
         IN  IF n > 0 /\ r[1] <= intervals[n][2]
             THEN RuleMerge([ intervals EXCEPT ![n][2] = Max(@, r[2]) ],
                            Tail(spans))
             ELSE RuleMerge(Append(intervals, r), Tail(spans))

\* the intervals the segments of an output read as
SpansOf(out) ==
    [ i \in 1..Len(out) |->
        Span(TimeOfText(out[i][1]), TimeOfText(out[i][Len(out[i])])) ]

\* the intervals of the input's ranges, sorted by start
SortedInput ==
    LET deduped == DedupMatches(slotIn)
        ranges == SortByStart([ i \in 1..Len(deduped) |-> ToRange(deduped[i]) ])
    IN  [ i \in 1..Len(ranges) |-> Span(ranges[i].startT, ranges[i].endT) ]

\* C24: for every list of time matches the segments extractTimeOnly returns
\* are the intervals the merge rule yields on the ranges sorted by start.
C24_MergesPerRule ==
    slotStage >= 1 => SpansOf(slotOut) = RuleMerge(<< >>, SortedInput)

\* C25: extractTimeOnly returns the same output for every order of the same
\* time matches.
C25_OrderIndependent ==
    slotStage = 2 => permOut = slotOut

\* C26: while the mailbox is unchanged and the history is not cleared, a
\* cycle sends no push notification for a message id that an earlier cycle
\* already notified.
C26_NotifiedInOneCycle ==
    [][ ( req[1].pc = "save" /\ req'[1].pc = "respond" )
        => \A k \in 1..Len(req'[1].pushed) :
              req'[1].pushed[k].id \notin notified ]_vars

\* C27: a cycle whose merge write lands after clear() emptied the Redis
\* history does not bring back what was cleared: the store then holds
\* records of the cycle's own alerts only.
C27_ClearNotUndone ==
    [][ \A r \in Reqs :
          ( SaveStep(r) /\ ~ isDev /\ store = << >> /\ req[r].hist # << >> )
          => Ids(store') \subseteq Ids(req[r].alerts) ]_vars

\* a checkEmails request settles in this step
Settles ==
    \E c \in 1..MaxCycles : cyc[c].pc = "fetching" /\ cyc'[c].pc # "fetching"

\* a trigger is dropped by the guard in this step
DroppedStep == lastTrigger' = "dropped" /\ cyc' = cyc

\* C28: when every request returns, a set reentrancy flag is eventually
\* cleared; the step in which a request settles, whatever its outcome,
\* leaves the flag cleared; a dropped trigger leaves the flag as it was.
C28_FlagReleased ==
    /\ isSyncingRef ~> ~ isSyncingRef
    /\ [][ Settles => ~ isSyncingRef' ]_vars
    /\ [][ DroppedStep => isSyncingRef' = isSyncingRef ]_vars

\* C28 witness: a trigger was dropped while the last attempt was in flight,
\* that attempt failed, and the flag is clear.
C28_Witness ==
    /\ syncStatus = "Connection Failed"
    /\ lastTrigger = "dropped"
    /\ ~ isSyncingRef

\* the faults that end a cycle before its merge write
EarlyFaults == { "connect", "openBox", "search", "extract" }

\* C29: a cycle that fails when connecting, opening the inbox, searching
\* the headers or fetching and parsing a body leaves the persisted history
\* as it was and sends no notification, in the failing step and when it
\* answers.
C29_EarlyFailureHarmless ==
    [][ \A r \in Reqs :
          /\ ( \E f \in EarlyFaults : FailsWith(r, SyncError(f)) )
             => /\ store' = store
                /\ req'[r].pushed = << >>
                /\ req'[r].alerts = << >>
          /\ ( /\ req[r].pc = "respond"
               /\ req[r].message \in { SyncError(f) : f \in EarlyFaults }
               /\ req'[r] # req[r] )
             => /\ store' = store
                /\ req'[r].pc = "idle"
                /\ req'[r].pushed = << >> ]_vars

\* C29 witness: a request has failed in extraction while the store holds
\* records and the mailbox holds a message that is not persisted.
C29_Witness ==
    \E r \in Reqs :
        /\ req[r].pc = "respond"
        /\ req[r].message = SyncError("extract")
        /\ store # << >>
        /\ \E u \in 1..Len(mailbox) :
              Classify(mailbox[u].header) # "none" /\ u \notin Ids(store)

\* C30: after any sequence of saveSubscription calls no subscriber handle
\* is in two stored entries, and the entry of the handle saved last carries
\* the location of that save.
C30_OneEntryLatestLocation ==
    /\ \A i, j \in 1..Len(memorySubscriptions) :
          memorySubscriptions[i].subscription
             = memorySubscriptions[j].subscription => i = j
    /\ \A i \in 1..Len(memorySubscriptions) :
          memorySubscriptions[i].subscription = lastSave.subscription
          => memorySubscriptions[i].location = lastSave.location

====
